---- MODULE Spec2Model ----
(***************************************************************************)
(* Ultimate Tic-Tac-Toe bitboard and perft enumerator (src/src/main.rs).   *)
(*                                                                         *)
(* A usize is a natural number; no value of the program reaches 2^26, so   *)
(* the width of usize plays no part.  The bitwise operators are computed   *)
(* nine bits at a time from tables.                                        *)
(***************************************************************************)
EXTENDS Integers, Sequences, FiniteSets, TLC

\* ------------------------------------------------------------------------
\* Bounds of the exploration
\* ------------------------------------------------------------------------
\* Number of directing lines of play (see LineIndex).
NumLines == 3
\* Largest depth argument given to move_gen.
MaxDepth == 1

\* ------------------------------------------------------------------------
\* Bitwise operators of usize
\* ------------------------------------------------------------------------
\* 1 << k
Shl1 == [k \in 0..26 |-> 2^k]

\* Bit k of x.
Bit(x, k) == (x \div Shl1[k]) % 2

\* a & b for a, b < 2^n, bit by bit
RECURSIVE AndBits(_, _, _)
AndBits(a, b, n) ==
    IF n = 0 THEN 0
    ELSE (a % 2) * (b % 2) + 2 * AndBits(a \div 2, b \div 2, n - 1)

\* a & b for a, b < 2^9
And9 == [a \in 0..511 |-> [b \in 0..511 |-> AndBits(a, b, 9)]]

\* a & b, nine bits at a time
RECURSIVE bitand(_, _)
bitand(a, b) ==
    IF a < 512 \/ b < 512 THEN And9[a % 512][b % 512]
    ELSE And9[a % 512][b % 512] + 512 * bitand(a \div 512, b \div 512)

\* a | b
bitor(a, b) == a + b - bitand(a, b)

\* a & !b
bitandnot(a, b) == a - bitand(a, b)

\* x.count_ones() for x < 2^9
Ones9 == [a \in 0..511 |->
            Bit(a, 0) + Bit(a, 1) + Bit(a, 2) + Bit(a, 3) + Bit(a, 4)
                + Bit(a, 5) + Bit(a, 6) + Bit(a, 7) + Bit(a, 8)]

count_ones(x) == Ones9[x]

\* x.leading_zeros() of a 64 bit usize: 64 less the number of bits of x.
RECURSIVE leading_zeros(_)
leading_zeros(x) == IF x = 0 THEN 64 ELSE leading_zeros(x \div 2) - 1

\* ------------------------------------------------------------------------
\* Constants of main.rs
\* ------------------------------------------------------------------------
WHITE == 0
BLACK == 1
\* 0x1FF << 16
FIELD == 511 * 65536
\* 0xFFFF
SQUARE == 65535
\* 0x1 << 25
ALL_FIELDS_LEGAL == 33554432
\* [0o421, 0o124]
DIAGS == <<273, 84>>
\* [0o700, 0o070, 0o007]
ROWS == <<448, 56, 7>>
\* [0o111, 0o222, 0o444]
COLS == <<73, 146, 292>>
\* 0o777
ALL_FIELDS == 511
\* size_of::<usize>() * 8 - 1
USIZE == 63

\* ------------------------------------------------------------------------
\* Free functions and macros
\* ------------------------------------------------------------------------
\* field!(val) = (val & FIELD) >> 16
field(val) == bitand(val, FIELD) \div 65536

\* square!(val) = val & SQUARE
square(val) == bitand(val, SQUARE)

\* (USIZE - no.leading_zeros()) as usize.  For no = 0 the subtraction
\* underflows; the value -1 here is no index of any array.
to_index(no) == USIZE - leading_zeros(no)

is_tied(f) == f = ALL_FIELDS

\* is_won without the second diagonal.
is_won_one_diagonal(f) ==
    \/ bitand(f, DIAGS[1]) = DIAGS[1]
    \/ bitand(f, ROWS[1]) = ROWS[1]
    \/ bitand(f, ROWS[2]) = ROWS[2]
    \/ bitand(f, ROWS[3]) = ROWS[3]
    \/ bitand(f, COLS[1]) = COLS[1]
    \/ bitand(f, COLS[2]) = COLS[2]
    \/ bitand(f, COLS[3]) = COLS[3]

is_won(f) ==
    \/ bitand(f, DIAGS[1]) = DIAGS[1]
    \/ bitand(f, DIAGS[2]) = DIAGS[2]
    \/ bitand(f, ROWS[1]) = ROWS[1]
    \/ bitand(f, ROWS[2]) = ROWS[2]
    \/ bitand(f, ROWS[3]) = ROWS[3]
    \/ bitand(f, COLS[1]) = COLS[1]
    \/ bitand(f, COLS[2]) = COLS[2]
    \/ bitand(f, COLS[3]) = COLS[3]

\* ------------------------------------------------------------------------
\* struct Bitboard and its methods.  A method taking &mut self is an
\* operator that yields the new value of self (and the returned value).
\* ------------------------------------------------------------------------
Default ==
    [ valid_field |-> ALL_FIELDS,
      board |-> [p \in 0..1 |-> [i \in 0..8 |-> 0]],
      turn |-> 0,
      cached_meta_field |-> [p \in 0..1 |-> 0],
      cached_game_over |-> FALSE,
      cached_meta_field_dirty |-> TRUE,
      cached_game_over_dirty |-> TRUE ]

\* dirty that leaves cached_game_over_dirty alone.
dirty_meta_only(self) ==
    [self EXCEPT !.cached_meta_field_dirty = TRUE]

dirty(self) ==
    [self EXCEPT !.cached_game_over_dirty = TRUE,
                 !.cached_meta_field_dirty = TRUE]

taken(self, pos) ==
    bitand(bitor(self.board[0][to_index(field(pos))],
                 self.board[1][to_index(field(pos))]),
           square(pos)) # 0

\* field_is_blocked that knows full sub-boards only.
field_is_blocked_full_only(self, f) ==
    LET white_field == self.board[WHITE][f]
        black_field == self.board[BLACK][f]
    IN  is_tied(bitor(white_field, black_field))

field_is_blocked(self, f) ==
    LET white_field == self.board[WHITE][f]
        black_field == self.board[BLACK][f]
    IN  is_won(white_field) \/ is_won(black_field)
            \/ is_tied(bitor(white_field, black_field))

\* make_move that never relaxes the constraint.
make_move_never_relaxes(self, mov) ==
    LET f == field(mov)
        sq == square(mov)
        placed == [self EXCEPT !.board[self.turn][to_index(f)] = bitor(@, sq)]
    IN  dirty([placed EXCEPT !.valid_field = sq, !.turn = 1 - self.turn])

\* make_move that tests the target sub-board before the piece is placed.
make_move_blocked_before(self, mov) ==
    LET f == field(mov)
        sq == square(mov)
        placed == [self EXCEPT !.board[self.turn][to_index(f)] = bitor(@, sq)]
    IN  dirty([placed EXCEPT
                 !.valid_field = IF field_is_blocked(self, to_index(sq)) \/ is_won(f)
                                 THEN ALL_FIELDS ELSE sq,
                 !.turn = 1 - self.turn])

\* make_move that constrains the opponent to the sub-board just played in.
make_move_to_field(self, mov) ==
    LET f == field(mov)
        sq == square(mov)
        placed == [self EXCEPT !.board[self.turn][to_index(f)] = bitor(@, sq)]
    IN  dirty([placed EXCEPT
                 !.valid_field = IF field_is_blocked(placed, to_index(f)) \/ is_won(f)
                                 THEN ALL_FIELDS ELSE f,
                 !.turn = 1 - self.turn])

make_move(self, mov) ==
    LET f == field(mov)
        sq == square(mov)
        placed == [self EXCEPT !.board[self.turn][to_index(f)] = bitor(@, sq)]
    IN  dirty([placed EXCEPT
                 !.valid_field = IF field_is_blocked(placed, to_index(sq)) \/ is_won(f)
                                 THEN ALL_FIELDS ELSE sq,
                 !.turn = 1 - self.turn])

\* The (i, s) pairs in the order of the two nested loops.
LoopOrder == [k \in 1..81 |-> <<(k - 1) \div 9, (k - 1) % 9>>]

\* let mov = (1 << s) | ((1 << i) << 16)
LoopMove(i, s) == bitor(Shl1[s], Shl1[i] * 65536)

\* get_all_moves without the test of taken.
get_all_moves_untaken(self) ==
    LET Pushes(is) ==
            /\ bitand(Shl1[is[1]], self.valid_field) # 0
            /\ ~field_is_blocked(self, is[1])
        kept == SelectSeq(LoopOrder, Pushes)
        flag == IF self.valid_field = 511 THEN ALL_FIELDS_LEGAL ELSE 0
    IN  [k \in 1..Len(kept) |-> bitor(LoopMove(kept[k][1], kept[k][2]), flag)]

\* get_all_moves without the test of field_is_blocked.
get_all_moves_unblocked(self) ==
    LET Pushes(is) ==
            /\ bitand(Shl1[is[1]], self.valid_field) # 0
            /\ ~taken(self, LoopMove(is[1], is[2]))
        kept == SelectSeq(LoopOrder, Pushes)
        flag == IF self.valid_field = 511 THEN ALL_FIELDS_LEGAL ELSE 0
    IN  [k \in 1..Len(kept) |-> bitor(LoopMove(kept[k][1], kept[k][2]), flag)]

\* get_all_moves without the test of valid_field.
get_all_moves_unconstrained(self) ==
    LET Pushes(is) ==
            /\ ~taken(self, LoopMove(is[1], is[2]))
            /\ ~field_is_blocked(self, is[1])
        kept == SelectSeq(LoopOrder, Pushes)
        flag == IF self.valid_field = 511 THEN ALL_FIELDS_LEGAL ELSE 0
    IN  [k \in 1..Len(kept) |-> bitor(LoopMove(kept[k][1], kept[k][2]), flag)]

\* get_all_moves that stops after the first sub-board that yields moves.
get_all_moves_first_field(self) ==
    LET Pushes(is) ==
            /\ bitand(Shl1[is[1]], self.valid_field) # 0
            /\ ~taken(self, LoopMove(is[1], is[2]))
            /\ ~field_is_blocked(self, is[1])
        all == SelectSeq(LoopOrder, Pushes)
        SameField(is) == is[1] = all[1][1]
        kept == IF all = <<>> THEN <<>> ELSE SelectSeq(all, SameField)
        flag == IF self.valid_field = 511 THEN ALL_FIELDS_LEGAL ELSE 0
    IN  [k \in 1..Len(kept) |-> bitor(LoopMove(kept[k][1], kept[k][2]), flag)]

get_all_moves(self) ==
    LET Pushes(is) ==
            /\ bitand(Shl1[is[1]], self.valid_field) # 0
            /\ ~taken(self, LoopMove(is[1], is[2]))
            /\ ~field_is_blocked(self, is[1])
        kept == SelectSeq(LoopOrder, Pushes)
        flag == IF self.valid_field = 511 THEN ALL_FIELDS_LEGAL ELSE 0
    IN  [k \in 1..Len(kept) |-> bitor(LoopMove(kept[k][1], kept[k][2]), flag)]

\* undo_move that leaves the turn as it is.
undo_move_keeps_turn(self, mov) ==
    LET f == field(mov)
        sq == square(mov)
        cleared == [self EXCEPT !.board[1 - self.turn][to_index(f)] = bitandnot(@, sq)]
    IN  dirty([cleared EXCEPT
                 !.valid_field = IF bitand(mov, ALL_FIELDS_LEGAL) # 0
                                 THEN ALL_FIELDS ELSE f])

\* undo_move that ignores the ALL_FIELDS_LEGAL flag of the move.
undo_move_ignores_flag(self, mov) ==
    LET f == field(mov)
        sq == square(mov)
        cleared == [self EXCEPT !.board[1 - self.turn][to_index(f)] = bitandnot(@, sq)]
    IN  dirty([cleared EXCEPT !.valid_field = f, !.turn = 1 - self.turn])

undo_move(self, mov) ==
    LET f == field(mov)
        sq == square(mov)
        cleared == [self EXCEPT !.board[1 - self.turn][to_index(f)] = bitandnot(@, sq)]
    IN  dirty([cleared EXCEPT
                 !.valid_field = IF bitand(mov, ALL_FIELDS_LEGAL) # 0
                                 THEN ALL_FIELDS ELSE f,
                 !.turn = 1 - self.turn])

\* is_won(..) as usize
AsUsize(b) == IF b THEN 1 ELSE 0

\* get_meta_field that shifts sub-boards 0..2 to bits 6..8 instead of 8..6.
get_meta_field_row_kept(self) ==
    IF ~self.cached_meta_field_dirty
    THEN [self |-> self, ret |-> self.cached_meta_field]
    ELSE LET fld == [p \in 0..1 |->
                        AsUsize(is_won(self.board[p][0])) * Shl1[6]
                            + AsUsize(is_won(self.board[p][1])) * Shl1[7]
                            + AsUsize(is_won(self.board[p][2])) * Shl1[8]
                            + AsUsize(is_won(self.board[p][3])) * Shl1[5]
                            + AsUsize(is_won(self.board[p][4])) * Shl1[4]
                            + AsUsize(is_won(self.board[p][5])) * Shl1[3]
                            + AsUsize(is_won(self.board[p][6])) * Shl1[2]
                            + AsUsize(is_won(self.board[p][7])) * Shl1[1]
                            + AsUsize(is_won(self.board[p][8])) * Shl1[0]]
         IN  [self |-> [self EXCEPT !.cached_meta_field = fld,
                                    !.cached_meta_field_dirty = FALSE],
              ret |-> fld]

\* Returns [self |-> the board afterwards, ret |-> the returned array].
\* The shifted bits are distinct, so that | is +.
get_meta_field(self) ==
    IF ~self.cached_meta_field_dirty
    THEN [self |-> self, ret |-> self.cached_meta_field]
    ELSE LET fld == [p \in 0..1 |->
                        AsUsize(is_won(self.board[p][0])) * Shl1[8]
                            + AsUsize(is_won(self.board[p][1])) * Shl1[7]
                            + AsUsize(is_won(self.board[p][2])) * Shl1[6]
                            + AsUsize(is_won(self.board[p][3])) * Shl1[5]
                            + AsUsize(is_won(self.board[p][4])) * Shl1[4]
                            + AsUsize(is_won(self.board[p][5])) * Shl1[3]
                            + AsUsize(is_won(self.board[p][6])) * Shl1[2]
                            + AsUsize(is_won(self.board[p][7])) * Shl1[1]
                            + AsUsize(is_won(self.board[p][8])) * Shl1[0]]
         IN  [self |-> [self EXCEPT !.cached_meta_field = fld,
                                    !.cached_meta_field_dirty = FALSE],
              ret |-> fld]

game_tied(self) ==
    \A i \in 0..8 :
        \/ is_won(self.board[0][i])
        \/ is_won(self.board[1][i])
        \/ is_tied(bitor(self.board[0][i], self.board[1][i]))

\* sum of board[0][i].count_ones() for i in 0..n
RECURSIVE CountOnes(_, _)
CountOnes(self, n) ==
    IF n = 0 THEN 0
    ELSE CountOnes(self, n - 1) + count_ones(self.board[0][n - 1])

\* game_over that does not ask game_tied.
game_over_without_tied(self) ==
    IF ~self.cached_game_over_dirty
    THEN [self |-> self, ret |-> self.cached_game_over]
    ELSE IF CountOnes(self, 9) < 9
    THEN [self |-> self, ret |-> FALSE]
    ELSE LET meta == get_meta_field(self)
             r == is_won(meta.ret[WHITE]) \/ is_won(meta.ret[BLACK])
         IN  [self |-> [meta.self EXCEPT !.cached_game_over = r,
                                         !.cached_game_over_dirty = FALSE],
              ret |-> r]

\* game_over that looks for a macro line of WHITE only.
game_over_white_only(self) ==
    IF ~self.cached_game_over_dirty
    THEN [self |-> self, ret |-> self.cached_game_over]
    ELSE IF CountOnes(self, 9) < 9
    THEN [self |-> self, ret |-> FALSE]
    ELSE LET meta == get_meta_field(self)
             r == is_won(meta.ret[WHITE]) \/ game_tied(meta.self)
         IN  [self |-> [meta.self EXCEPT !.cached_game_over = r,
                                         !.cached_game_over_dirty = FALSE],
              ret |-> r]

\* Returns [self |-> the board afterwards, ret |-> the returned bool].
game_over(self) ==
    IF ~self.cached_game_over_dirty
    THEN [self |-> self, ret |-> self.cached_game_over]
    ELSE IF CountOnes(self, 9) < 9
    THEN [self |-> self, ret |-> FALSE]
    ELSE LET meta == get_meta_field(self)
             r == (is_won(meta.ret[WHITE]) \/ is_won(meta.ret[BLACK]))
                    \/ game_tied(meta.self)
         IN  [self |-> [meta.self EXCEPT !.cached_game_over = r,
                                         !.cached_game_over_dirty = FALSE],
              ret |-> r]

\* ------------------------------------------------------------------------
\* State
\* ------------------------------------------------------------------------
VARIABLES
    cur,      \* the caller's Bitboard
    line,     \* the line of play that directs the caller
    history,  \* the caller's moves, each with the position it was made in
    stack,    \* the activations of move_gen, innermost last
    ret,      \* the most recent return of move_gen since the caller's last move
    oracle    \* a mask given to is_won, is_tied or get_meta_field, and the answer

vars == <<cur, line, history, stack, ret, oracle>>

NoRet == [depth |-> -1]

NoOracle == [pc |-> "none"]

\* Number of pieces of player p, and of both players, on the board.
PiecesOf(self, p) ==
    Ones9[self.board[p][0]] + Ones9[self.board[p][1]] + Ones9[self.board[p][2]]
        + Ones9[self.board[p][3]] + Ones9[self.board[p][4]] + Ones9[self.board[p][5]]
        + Ones9[self.board[p][6]] + Ones9[self.board[p][7]] + Ones9[self.board[p][8]]

Pieces(self) == PiecesOf(self, 0) + PiecesOf(self, 1)

\* The fields of a Bitboard that describe the position.
Position(self) ==
    [board |-> self.board, valid_field |-> self.valid_field, turn |-> self.turn]

\* The directing line chooses one element of a move list of length n.
LineIndex(l, ply, n) == ((ply * ply + 18 * ply + l) % n) + 1

Init ==
    /\ cur = Default
    /\ line \in 1..NumLines
    /\ history = <<>>
    /\ stack = <<>>
    /\ ret = NoRet
    /\ oracle = NoOracle

\* ------------------------------------------------------------------------
\* The caller of the public methods: it plays the moves of its directing
\* line until the game is over, takes them back newest first, and queries
\* the board in between.
\* ------------------------------------------------------------------------
\* make_move of the move the directing line chooses of get_all_moves.
PlayLine ==
    /\ stack = <<>>
    /\ ~game_over(cur).ret
    /\ LET moves == get_all_moves(cur)
       IN  /\ moves # <<>>
           /\ LET mov == moves[LineIndex(line, Len(history), Len(moves))]
              IN  /\ cur' = make_move(cur, mov)
                  /\ history' = Append(history, [mov |-> mov, pre |-> Position(cur)])
    /\ ret' = NoRet
    /\ UNCHANGED <<line, stack, oracle>>

\* undo_move of the newest move.
UndoMove ==
    /\ stack = <<>>
    /\ history # <<>>
    /\ cur' = undo_move(cur, history[Len(history)].mov)
    /\ history' = SubSeq(history, 1, Len(history) - 1)
    /\ ret' = NoRet
    /\ UNCHANGED <<line, stack, oracle>>

GameOver ==
    /\ stack = <<>>
    /\ cur' = game_over(cur).self
    /\ UNCHANGED <<line, history, stack, ret, oracle>>

GetMetaField ==
    /\ stack = <<>>
    /\ cur' = get_meta_field(cur).self
    /\ UNCHANGED <<line, history, stack, ret, oracle>>

\* ------------------------------------------------------------------------
\* move_gen.  An activation is [board, depth, pc, moves, i, sum, val]:
\* pc = "call" before the body has run, "map" while the closure is applied
\* to moves[i + 1], "done" when the value val is ready to be returned.
\* ------------------------------------------------------------------------
\* An activation that keeps the depth of its caller.
Activation_same_depth(b, d) ==
    [board |-> b, depth |-> d + 1, pc |-> "call", moves |-> <<>>, i |-> 0, sum |-> 0, val |-> 0]

Activation(b, d) ==
    [board |-> b, depth |-> d, pc |-> "call", moves |-> <<>>, i |-> 0, sum |-> 0, val |-> 0]

\* move_gen that does not ask game_over.
move_gen_body_unchecked(act) ==
    LET moves == get_all_moves(act.board)
    IN  IF act.depth > 0
        THEN [act EXCEPT !.pc = "map", !.moves = moves]
        ELSE [act EXCEPT !.pc = "done", !.moves = moves, !.val = Len(moves)]

\* The body up to the map: game_over, get_all_moves, moves.len().
move_gen_body(act) ==
    LET over == game_over(act.board)
        moves == get_all_moves(over.self)
    IN  IF over.ret
        THEN [act EXCEPT !.board = over.self, !.pc = "done", !.val = 0]
        ELSE IF act.depth > 0
        THEN [act EXCEPT !.board = over.self, !.pc = "map", !.moves = moves]
        ELSE [act EXCEPT !.board = over.self, !.pc = "done", !.moves = moves,
                         !.val = Len(moves)]

\* The closure up to the recursive call: board.make_move(*mov).
move_gen_descend(act) ==
    [act EXCEPT !.board = make_move(act.board, act.moves[act.i + 1])]

\* The closure without board.undo_move(*mov).
move_gen_resume_no_undo(act, r) ==
    [act EXCEPT !.sum = act.sum + r, !.i = act.i + 1]

\* The closure yielding 0 instead of the value of the recursive call.
move_gen_resume_drops_ret(act, r) ==
    [act EXCEPT !.board = undo_move(act.board, act.moves[act.i + 1]),
                !.i = act.i + 1]

\* The rest of the closure, with r the value of the recursive call:
\* board.undo_move(*mov); ret, and the sum of the rets.
move_gen_resume(act, r) ==
    [act EXCEPT !.board = undo_move(act.board, act.moves[act.i + 1]),
                !.sum = act.sum + r,
                !.i = act.i + 1]

\* The value returned by an activation whose body or map has ended.
move_gen_value(act) ==
    IF act.pc = "done" THEN act.val ELSE Len(act.moves) + act.sum

Top == stack[Len(stack)]

\* The Bitboard that activation k was called with.
Entry(k) == IF k = 1 THEN cur ELSE stack[k - 1].board

\* The caller runs move_gen(cur, d).
Call ==
    /\ stack = <<>>
    /\ \E d \in 0..MaxDepth : stack' = <<Activation(cur, d)>>
    /\ ret' = NoRet
    /\ UNCHANGED <<cur, line, history, oracle>>

Enter ==
    /\ stack # <<>>
    /\ Top.pc = "call"
    /\ stack' = [stack EXCEPT ![Len(stack)] = move_gen_body(Top)]
    /\ UNCHANGED <<cur, line, history, ret, oracle>>

Descend ==
    /\ stack # <<>>
    /\ Top.pc = "map"
    /\ Top.i < Len(Top.moves)
    /\ LET act == move_gen_descend(Top)
       IN  stack' = Append([stack EXCEPT ![Len(stack)] = act],
                           Activation(act.board, act.depth - 1))
    /\ UNCHANGED <<cur, line, history, ret, oracle>>

Return ==
    /\ stack # <<>>
    /\ \/ Top.pc = "done"
       \/ Top.pc = "map" /\ Top.i = Len(Top.moves)
    /\ LET r == move_gen_value(Top)
           n == Len(stack)
       IN  /\ ret' = [board |-> Entry(n), depth |-> Top.depth, val |-> r]
           /\ stack' = IF n = 1 THEN <<>>
                       ELSE [SubSeq(stack, 1, n - 1) EXCEPT
                                ![n - 1] = move_gen_resume(stack[n - 1], r)]
    /\ UNCHANGED <<cur, line, history, oracle>>

\* The caller moves along its line and runs move_gen on the boards it meets.
Next ==
    \/ PlayLine
    \/ UndoMove
    \/ Call
    \/ Enter
    \/ Descend
    \/ Return

Spec == Init /\ [][Next]_vars

\* The caller moves along its line and queries the board in any interleaving.
NextCache ==
    \/ PlayLine
    \/ UndoMove
    \/ GameOver
    \/ GetMetaField

SpecCache == Init /\ [][NextCache]_vars

\* The caller plays its line forward to the end of the game and runs
\* move_gen at most once on each board it meets.  The program is sequential:
\* a call of move_gen that has begun goes on, and so does the caller.
CallOnce ==
    /\ ret = NoRet
    /\ Call

NextLive ==
    \/ PlayLine
    \/ CallOnce
    \/ Enter
    \/ Descend
    \/ Return

\* ENABLED <<PlayLine>>_vars, written as the state predicate it is.
PlayLineEnabled ==
    /\ stack = <<>>
    /\ ~game_over(cur).ret
    /\ get_all_moves(cur) # <<>>

\* Weak fairness of PlayLine and of Enter \/ Descend \/ Return, with ENABLED
\* written out: one of Enter, Descend and Return can change the stack
\* whenever the stack is not empty.
SpecLive ==
    /\ Init
    /\ [][NextLive]_vars
    /\ ([]<>(~PlayLineEnabled) \/ []<><<PlayLine>>_vars)
    /\ ([]<>(stack = <<>>) \/ []<><<Enter \/ Descend \/ Return>>_vars)

\* ------------------------------------------------------------------------
\* The pure functions applied to every nine-bit mask.
\* ------------------------------------------------------------------------
\* A Bitboard on which player p has the top row of exactly the sub-boards
\* whose bits are set in mask, and nothing else.
BoardWon(p, mask) ==
    [Default EXCEPT !.board[p] = [i \in 0..8 |-> ROWS[3] * Bit(mask, i)]]

InitOracle ==
    /\ cur = Default
    /\ line = 1
    /\ history = <<>>
    /\ stack = <<>>
    /\ ret = NoRet
    /\ \E m \in 0..ALL_FIELDS : \E p \in {WHITE, BLACK} :
          oracle = [pc |-> "mask", mask |-> m, p |-> p]

\* is_won(mask) and is_tied(mask)
IsWonIsTied ==
    /\ oracle.pc = "mask"
    /\ oracle' = [pc |-> "is_won", mask |-> oracle.mask, p |-> oracle.p,
                  won |-> is_won(oracle.mask), tied |-> is_tied(oracle.mask)]
    /\ UNCHANGED <<cur, line, history, stack, ret>>

\* get_meta_field() on the board of the mask, is_won of the meta mask as in
\* game_over().
MetaIsWon ==
    /\ oracle.pc = "mask"
    /\ LET meta_field == get_meta_field(BoardWon(oracle.p, oracle.mask)).ret
       IN  oracle' = [pc |-> "meta", mask |-> oracle.mask, p |-> oracle.p,
                      meta |-> meta_field[oracle.p],
                      won |-> is_won(meta_field[oracle.p])]
    /\ UNCHANGED <<cur, line, history, stack, ret>>

NextOracle ==
    \/ IsWonIsTied
    \/ MetaIsWon

SpecOracle == InitOracle /\ [][NextOracle]_vars

\* Every Bitboard the program holds.
Boards == {cur} \cup {stack[k].board : k \in 1..Len(stack)}

\* ------------------------------------------------------------------------
\* The rules of the game, stated on cells and sub-board indices
\* (cell index = 3 * row + column).  The properties are stated in these
\* terms; nothing of the program is defined by them.
\* ------------------------------------------------------------------------
Lines3 ==
    {{3 * r, 3 * r + 1, 3 * r + 2} : r \in 0..2}
        \cup {{c, c + 3, c + 6} : c \in 0..2}
        \cup {{0, 4, 8}, {2, 4, 6}}

\* Player p has a piece on cell s of sub-board i.
Has(pos, p, i, s) == Bit(pos.board[p][i], s) = 1

Occupied(pos, i, s) == Has(pos, 0, i, s) \/ Has(pos, 1, i, s)

WonBy(pos, p, i) == \E L \in Lines3 : \A s \in L : Has(pos, p, i, s)

Full(pos, i) == \A s \in 0..8 : Occupied(pos, i, s)

Decided(pos, i) == WonBy(pos, 0, i) \/ WonBy(pos, 1, i) \/ Full(pos, i)

AllLegal(pos) == pos.valid_field = 511

Allowed(pos, i) == AllLegal(pos) \/ pos.valid_field = 2^i

LegalPairs(pos) ==
    UNION {{<<i, s>> : s \in {t \in 0..8 : ~Occupied(pos, i, t)}} :
              i \in {j \in 0..8 : Allowed(pos, j) /\ ~Decided(pos, j)}}

MacroWon(pos, p) == \E L \in Lines3 : \A i \in L : WonBy(pos, p, i)

RuleOver(pos) ==
    MacroWon(pos, 0) \/ MacroWon(pos, 1) \/ \A i \in 0..8 : Decided(pos, i)

\* The position after the player to move plays cell s of sub-board i.
Place(pos, i, s) ==
    LET placed == [pos.board EXCEPT ![pos.turn][i] = @ + 2^s]
    IN  [board |-> placed,
         valid_field |-> IF Decided([board |-> placed], s) THEN 511 ELSE 2^s,
         turn |-> 1 - pos.turn]

\* Number of nodes of the legal move tree below pos down to depth d + 1,
\* finished games cut off; TreeSum adds up the subtrees of the pairs in S.
RECURSIVE TreeNodes(_, _), TreeSum(_, _, _)
TreeNodes(pos, d) ==
    IF RuleOver(pos) THEN 0 ELSE TreeSum(pos, d, LegalPairs(pos))

TreeSum(pos, d, S) ==
    IF S = {} THEN 0
    ELSE LET is == CHOOSE x \in S : TRUE
         IN  1 + (IF d > 0 THEN TreeNodes(Place(pos, is[1], is[2]), d - 1) ELSE 0)
               + TreeSum(pos, d, S \ {is})

\* The move value that stands for the pair (i, s) in the position pos.
MoveValue(pos, i, s) == 2^s + 2^(16 + i) + (IF AllLegal(pos) THEN 2^25 ELSE 0)

\* meta is the meta-occupancy of pos: bit 8 - i of meta[p] is set iff
\* player p has won sub-board i.
IsMetaOf(pos, meta) ==
    \A p \in 0..1 :
        /\ meta[p] \in 0..511
        /\ \A i \in 0..8 : (Bit(meta[p], 8 - i) = 1) = WonBy(pos, p, i)

\* The cached values of a Bitboard.
Cached(self) == <<self.cached_meta_field, self.cached_game_over>>

\* ------------------------------------------------------------------------
\* Properties
\* ------------------------------------------------------------------------
\* C1: undo_move after make_move restores the occupancies, valid_field and
\* turn of the position the move was made in, also for a sequence of moves
\* undone in reverse order: the caller's board is again the position the
\* undone move was made in, and an activation of move_gen that is not
\* waiting for a recursive call holds the position it was called with.
\* make_move and undo_move leave the cached meta-occupancy and the cached
\* game-over value as they were, so that these are restored as well.
C1_RoundTrip ==
    [][/\ Len(history') < Len(history) =>
            /\ Position(cur') = history[Len(history)].pre
            /\ Cached(cur') = Cached(cur)
       /\ Len(history') > Len(history) => Cached(cur') = Cached(cur)
       /\ \A k \in 1..Len(stack') :
            /\ k = Len(stack') => Position(stack'[k].board) = Position(Entry(k))'
            /\ (k <= Len(stack) /\ stack[k].pc # "call") =>
                    Cached(stack'[k].board) = Cached(stack[k].board)]_vars

\* An activation has made and undone a move and is about to make the next,
\* on a board whose caches game_over has filled.
C1_Witness ==
    /\ stack # <<>>
    /\ Top.pc = "map"
    /\ Top.i > 0
    /\ Top.i < Len(Top.moves)
    /\ Top.board.cached_meta_field[WHITE] # 0
    /\ Top.board.cached_meta_field[BLACK] # 0
    /\ Position(Top.board) = Position(Entry(Len(stack)))

\* C2: when game_over() returns true, get_all_moves returns no move.
C2_NoMovesWhenOver ==
    \A b \in Boards : game_over(b).ret => get_all_moves(b) = <<>>

\* C3: after make_move of cell c in sub-board f, valid_field names exactly
\* sub-board c if c is undecided in the position after the move, and is all
\* nine sub-boards otherwise.
C3_ActiveConstraint ==
    [][\A k \in 0..Len(stack) :
        LET old == IF k = 0 THEN cur ELSE stack[k].board
            new == IF k = 0 THEN cur' ELSE stack'[k].board
        IN  (k <= Len(stack') /\ Pieces(new) > Pieces(old)) =>
                \A f, c \in 0..8 :
                    (Occupied(new, f, c) /\ ~Occupied(old, f, c)) =>
                        new.valid_field = IF Decided(new, c) THEN 511 ELSE 2^c]_vars

\* An activation waits for the recursive call after a move to cell c of
\* sub-board c that decided that sub-board.
C3_Witness ==
    \E k \in 1..(Len(stack) - 1) : \E c \in 0..8 :
        /\ stack[k].moves[stack[k].i + 1] = MoveValue(Entry(k), c, c)
        /\ ~Decided(Entry(k), c)
        /\ Decided(stack[k].board, c)
        /\ Position(stack[k].board) = Place(Position(Entry(k)), c, c)
        /\ AllLegal(stack[k].board)

\* C4: get_all_moves returns exactly the legal pairs, each once, and every
\* move carries ALL_FIELDS_LEGAL iff all sub-boards are legal.
C4_LegalMoveSet ==
    \A b \in Boards :
        LET moves == get_all_moves(b)
            legal == LegalPairs(b)
        IN  /\ Len(moves) = Cardinality(legal)
            /\ {moves[k] : k \in 1..Len(moves)}
                    = {MoveValue(b, is[1], is[2]) : is \in legal}

\* Constrained to one sub-board while another sub-board is won with empty
\* cells left and a third one is full.
C4_Witness ==
    /\ \E i \in 0..8 : cur.valid_field = 2^i
    /\ LegalPairs(cur) # {}
    /\ \E i \in 0..8 : (WonBy(cur, 0, i) \/ WonBy(cur, 1, i)) /\ ~Full(cur, i)
    /\ \E i \in 0..8 : Full(cur, i)

\* C5: game_over() returns true iff a player has won three sub-boards in a
\* row, column or diagonal of the macro board, or all sub-boards are decided.
C5_GameOverDefinition ==
    \A b \in Boards : game_over(b).ret = RuleOver(b)

\* Black owns a macro line while undecided sub-boards remain, and an
\* activation has just been told so by game_over.
C5_Witness ==
    /\ stack # <<>>
    /\ Top.pc = "done"
    /\ MacroWon(Top.board, 1)
    /\ \E i \in 0..8 : ~Decided(Top.board, i)
    /\ Top.board.cached_game_over
    /\ ~Top.board.cached_game_over_dirty

\* C6: move_gen on a board whose game is over returns 0 and makes no move:
\* such an activation never has a move list, a child or a changed board.
C6_NothingBelowFinished ==
    /\ \A k \in 1..Len(stack) :
          RuleOver(Entry(k)) =>
              /\ k = Len(stack)
              /\ stack[k].pc # "map"
              /\ stack[k].moves = <<>>
              /\ Position(stack[k].board) = Position(Entry(k))
              /\ stack[k].pc = "done" => stack[k].val = 0
    /\ (ret # NoRet /\ RuleOver(ret.board)) => ret.val = 0

\* move_gen with depth > 0 has returned from a finished game that still has
\* empty cells in undecided sub-boards.
C6_Witness ==
    /\ ret # NoRet
    /\ ret.depth > 0
    /\ RuleOver(ret.board)
    /\ \E i, s \in 0..8 : ~Decided(ret.board, i) /\ ~Occupied(ret.board, i, s)

\* C7 as claimed: move_gen(Bitboard::default(), 0) = 9.
C7_PerftZeroIsNine ==
    (ret # NoRet /\ ret.depth = 0 /\ Position(ret.board) = Position(Default))
        => ret.val = 9

\* C7 amended: move_gen(Bitboard::default(), 0) = 81.
C7_PerftZeroIs81 ==
    (ret # NoRet /\ ret.depth = 0 /\ Position(ret.board) = Position(Default))
        => ret.val = 81

\* move_gen(Bitboard::default(), 0) has returned.
C7_Witness ==
    ret # NoRet /\ ret.depth = 0 /\ ret.board = Default /\ stack = <<>>

\* C8: on a board whose game is not over, move_gen(b, d) is the number of
\* nodes of the legal move tree below b down to depth d + 1.
C8_Recurrence ==
    (ret # NoRet /\ ~RuleOver(ret.board)) => ret.val = TreeNodes(ret.board, ret.depth)

\* A call with depth > 0 has returned whose tree holds a finished game.
C8_Witness ==
    /\ ret # NoRet
    /\ ret.depth > 0
    /\ ~RuleOver(ret.board)
    /\ \E is \in LegalPairs(ret.board) : RuleOver(Place(ret.board, is[1], is[2]))
    /\ ret.val > Cardinality(LegalPairs(ret.board))

\* C9: after a single first move (f, c) no sub-board is decided, valid_field
\* names exactly sub-board c, and there are 8 legal moves if c = f, else 9.
C9_SecondMoveCounts ==
    \A b \in Boards :
        Pieces(b) = 1 =>
            \A f, c \in 0..8 :
                Occupied(b, f, c) =>
                    /\ \A i \in 0..8 : ~Decided(b, i)
                    /\ b.valid_field = 2^c
                    /\ Len(get_all_moves(b)) = IF c = f THEN 8 ELSE 9

\* The first move went to the centre cell of the centre sub-board.
C9_Witness ==
    \E b \in Boards :
        /\ Pieces(b) = 1
        /\ Occupied(b, 4, 4)
        /\ Len(get_all_moves(b)) = 8

\* C10: get_all_moves returns at most 9 moves when valid_field names one
\* sub-board and at most 81 when all sub-boards are legal.
C10_MoveCountBound ==
    \A b \in Boards :
        LET n == Len(get_all_moves(b))
        IN  /\ (\E i \in 0..8 : b.valid_field = 2^i) => n <= 9
            /\ b.valid_field = ALL_FIELDS => n <= 81

\* Both limits are met: 9 moves in one sub-board, 81 on the initial board.
C10_Witness ==
    /\ \E i \in 0..8 : cur.valid_field = 2^i
    /\ Len(get_all_moves(cur)) = 9
    /\ Len(get_all_moves(Default)) = 81


\* C11: for every nine-bit mask, is_won(mask) is true iff the mask holds the
\* three cells of a row, a column or a diagonal, and is_tied(mask) is true
\* iff the mask is 0o777.
C11_WinTieOracle ==
    oracle.pc = "is_won" =>
        /\ oracle.won = (\E L \in Lines3 : \A s \in L : Bit(oracle.mask, s) = 1)
        /\ oracle.tied = (\A s \in 0..8 : Bit(oracle.mask, s) = 1)

\* is_won has answered true for the mask that is exactly the diagonal 0o124.
C11_Witness ==
    oracle.pc = "is_won" /\ oracle.mask = 84 /\ oracle.won /\ ~oracle.tied

\* C17: get_meta_field puts sub-board i won by p at bit 8 - i of p's meta
\* mask, and is_won of the meta mask is true iff p has won three sub-boards
\* whose indices form a row, column or diagonal.
C17_MetaIndexReversal ==
    oracle.pc = "meta" =>
        /\ \A i \in 0..8 : Bit(oracle.meta, 8 - i) = Bit(oracle.mask, i)
        /\ oracle.meta < 512
        /\ oracle.won = (\E L \in Lines3 : \A i \in L : Bit(oracle.mask, i) = 1)

\* Sub-boards 0, 1 and 2 are won: the meta mask is 0o700, not 0o007, and
\* the verdict is a win.
C17_Witness ==
    /\ oracle.pc = "meta"
    /\ oracle.mask = 7
    /\ oracle.meta = 448
    /\ oracle.won

\* C12: in every interleaving of make_move, undo_move, game_over and
\* get_meta_field, a cached value whose dirty flag is false equals the value
\* recomputed from the occupancies, and game_over() and get_meta_field()
\* return the recomputed values.
C12_CacheCoherence ==
    /\ ~cur.cached_game_over_dirty => cur.cached_game_over = RuleOver(cur)
    /\ ~cur.cached_meta_field_dirty => IsMetaOf(cur, cur.cached_meta_field)
    /\ game_over(cur).ret = RuleOver(cur)
    /\ IsMetaOf(cur, get_meta_field(cur).ret)

\* A finished game was cached, its last move undone and the meta-occupancy
\* asked for again: the meta cache is valid, the game-over cache still holds
\* the old value and is marked dirty.
C12_Witness ==
    /\ ~cur.cached_meta_field_dirty
    /\ cur.cached_game_over_dirty
    /\ cur.cached_game_over
    /\ ~RuleOver(cur)
    /\ cur.cached_meta_field[WHITE] # 0

\* C13: on every board reached by legal make_move and LIFO undo_move calls
\* no cell holds pieces of both players, and no occupancy mask has a bit
\* outside the nine cell bits.
C13_OccupancyDisjoint ==
    \A b \in Boards :
        \A i \in 0..8 :
            /\ b.board[WHITE][i] \in 0..511
            /\ b.board[BLACK][i] \in 0..511
            /\ \A s \in 0..8 : ~(Has(b, WHITE, i, s) /\ Has(b, BLACK, i, s))

\* The enumerator holds a board on which both players share a full
\* sub-board.
C13_Witness ==
    /\ Len(stack) > 1
    /\ \E i \in 0..8 :
          /\ Full(stack[1].board, i)
          /\ stack[1].board.board[WHITE][i] # 0
          /\ stack[1].board.board[BLACK][i] # 0

\* C14: on every board reached by legal make_move and LIFO undo_move calls
\* valid_field is 0o777 or the single bit of an undecided sub-board.
C14_ConstraintUndecided ==
    \A b \in Boards :
        \/ b.valid_field = 511
        \/ \E i \in 0..8 : b.valid_field = 2^i /\ ~Decided(b, i)

\* The caller is constrained to one sub-board while others are decided, and
\* the enumerator has just made a move into a decided sub-board's index.
C14_Witness ==
    /\ Len(stack) > 1
    /\ \E i \in 0..8 : cur.valid_field = 2^i
    /\ \E j \in 0..8 : Decided(cur, j)
    /\ AllLegal(stack[1].board)

\* C19: on every board reached by legal play on which game_over() is
\* false, get_all_moves returns at least one move.
C19_NoDeadPosition ==
    \A b \in Boards : ~game_over(b).ret => get_all_moves(b) # <<>>

\* A board whose game is not over with a single legal move left.
C19_Witness ==
    \E b \in Boards : ~game_over(b).ret /\ Len(get_all_moves(b)) = 1

\* C18: turn is 0 or 1 and equals the number of WHITE pieces less the number
\* of BLACK pieces (0 on the initial board); every make_move and every
\* undo_move flips it, and make_move adds its piece to the occupancy of the
\* player whose turn it was and leaves the other player's alone.
C18_TurnAlternation ==
    /\ [](\A b \in Boards :
            /\ b.turn \in {0, 1}
            /\ PiecesOf(b, WHITE) - PiecesOf(b, BLACK) = b.turn)
    /\ [][\A k \in 0..Len(stack) :
            LET old == IF k = 0 THEN cur ELSE stack[k].board
                new == IF k = 0 THEN cur' ELSE stack'[k].board
            IN  (k <= Len(stack') /\ Pieces(new) # Pieces(old)) =>
                    /\ new.turn = 1 - old.turn
                    /\ Pieces(new) > Pieces(old) =>
                          /\ PiecesOf(new, old.turn) = PiecesOf(old, old.turn) + 1
                          /\ new.board[1 - old.turn] = old.board[1 - old.turn]]_vars

\* BLACK is to move on the caller's board, and the enumerator has made and
\* undone a move and made the next one.
C18_Witness ==
    /\ Len(stack) = 2
    /\ stack[1].i > 0
    /\ cur.turn = 1
    /\ stack[1].board.turn = 0
    /\ PiecesOf(stack[1].board, BLACK) = PiecesOf(cur, BLACK) + 1

\* C15: a decided sub-board is permanent under forward play: a make_move
\* changes neither player's occupancy of a sub-board that was decided before
\* it, so that it stays decided with the same winner, and no list of
\* get_all_moves holds a move in a decided sub-board.
C15_DecidedPermanent ==
    /\ [](\A b \in Boards :
            LET moves == get_all_moves(b)
            IN  \A i \in 0..8 :
                    Decided(b, i) => \A k \in 1..Len(moves) : field(moves[k]) # 2^i)
    /\ [][\A k \in 0..Len(stack) :
            LET old == IF k = 0 THEN cur ELSE stack[k].board
                new == IF k = 0 THEN cur' ELSE stack'[k].board
            IN  (k <= Len(stack') /\ Pieces(new) > Pieces(old)) =>
                    \A i \in 0..8 :
                        Decided(old, i) =>
                            /\ new.board[WHITE][i] = old.board[WHITE][i]
                            /\ new.board[BLACK][i] = old.board[BLACK][i]
                            /\ WonBy(new, WHITE, i) = WonBy(old, WHITE, i)
                            /\ WonBy(new, BLACK, i) = WonBy(old, BLACK, i)]_vars

\* A sub-board decided at least four moves ago still has empty cells and is
\* as it was, while all sub-boards are legal and the game goes on.
C15_Witness ==
    /\ stack = <<>>
    /\ AllLegal(cur)
    /\ get_all_moves(cur) # <<>>
    /\ \E i \in 0..8 : \E k \in 1..(Len(history) - 4) :
          /\ Decided(history[k].pre, i)
          /\ ~Full(cur, i)
          /\ cur.board[WHITE][i] = history[k].pre.board[WHITE][i]
          /\ cur.board[BLACK][i] = history[k].pre.board[BLACK][i]

\* C16: every make_move of move_gen is given a move that is legal on the
\* board at the moment of the call: the board then has the occupancies,
\* valid_field and turn it was called with, its game is not over, the move
\* list is the legal moves of that position, and no step changes the move
\* list of an activation that is in its map.
C16_EnumeratorPrecondition ==
    [][/\ (stack # <<>> /\ Len(stack') = Len(stack) + 1) =>
            LET legal == {MoveValue(Top.board, is[1], is[2]) : is \in LegalPairs(Top.board)}
            IN  /\ Position(Top.board) = Position(Entry(Len(stack)))
                /\ ~RuleOver(Top.board)
                /\ Top.moves[Top.i + 1] \in legal
                /\ {Top.moves[k] : k \in 1..Len(Top.moves)} = legal
                /\ Len(Top.moves) = Cardinality(legal)
       /\ \A k \in 1..Len(stack) :
            (k <= Len(stack') /\ stack[k].pc = "map") =>
                stack'[k].moves = stack[k].moves]_vars

\* The enumerator has undone a move and made the next move of its list.
C16_Witness ==
    /\ Len(stack) = 2
    /\ stack[1].i > 0
    /\ stack[2].pc = "call"
    /\ Position(stack[1].board)
          = Place(Position(cur), to_index(field(stack[1].moves[stack[1].i + 1])),
                  to_index(square(stack[1].moves[stack[1].i + 1])))

\* C20: every make_move adds exactly one piece, a game has at most 81 moves
\* and forward play reaches a board whose game is over; every call of
\* move_gen returns, its activations nest at most depth + 1 deep with the
\* depth falling by one per level, and an activation that returns without
\* recursing is on a finished board or has depth 0.
C20_Termination ==
    /\ [][/\ Len(history') = Len(history) + 1 => Pieces(cur') = Pieces(cur) + 1
          /\ (stack # <<>> /\ Len(stack') = Len(stack) + 1) =>
                Pieces(stack'[Len(stack)].board) = Pieces(Top.board) + 1]_vars
    /\ [](Len(history) = Pieces(cur) /\ Len(history) <= 81)
    /\ [](\A k \in 1..Len(stack) :
            /\ stack[k].depth >= 0
            /\ stack[k].depth = stack[1].depth - (k - 1)
            /\ stack[k].pc = "done" => (RuleOver(Entry(k)) \/ stack[k].depth = 0)
            /\ stack[k].pc = "map" => (~RuleOver(Entry(k)) /\ stack[k].depth > 0))
    /\ <>RuleOver(cur)
    /\ (stack # <<>>) ~> (stack = <<>>)

\* The game is over after more than 40 moves, and move_gen with depth > 0
\* has been called on the final board and has returned.
C20_Witness ==
    /\ RuleOver(cur)
    /\ Len(history) > 40
    /\ stack = <<>>
    /\ ret # NoRet
    /\ ret.depth > 0
====
